---- MODULE Spec2Model ----
(***************************************************************************)
(* Model of the two-stage headline pipeline:                               *)
(*   backend/scripts/fetchNews.py         (Fetcher)                        *)
(*   backend/scripts/analyzeSentiment.py  (Analyzer)                       *)
(* The scripts run one after the other as separate processes and share     *)
(* only the files of the data directory.                                   *)
(***************************************************************************)
EXTENDS Integers, Sequences, FiniteSets, TLC

VARIABLES
    API_KEY,            \* fetchNews.py module global, read from the environment at import
    fs,                 \* the data directory: file name -> text (sequence of JSON tokens) or absent
    pc,                 \* position of the running process
    prog,               \* which entry point the current / last process runs
    args,               \* get_headlines_by_category: arguments (category, language)
    file_path,          \* analyzeSentiment: argument
    articles,           \* analyzeSentiment: local `articles` (json.load result)
    idx,                \* analyzeSentiment: position of the for loop in `articles`
    analyzed_articles,  \* analyzeSentiment: local `analyzed_articles`
    ret,                \* value returned by the function the process called
    exc,                \* exception that left the function / terminated the process ("" if none)
    requests,           \* HTTP requests issued by the current call (their params)
    response,           \* what the last requests.get produced
    pipelineInits,      \* number of pipeline("sentiment-analysis") constructions in this run
    clsLog,             \* calls of sentiment_pipeline in this run: title and what it returned
    fs0                 \* the data directory as it was when the current process started

vars == <<API_KEY, fs, pc, prog, args, file_path, articles, idx, analyzed_articles, ret, exc,
          requests, response, pipelineInits, clsLog, fs0>>

(***************************************************************************)
(* Bounds of the model                                                     *)
(***************************************************************************)
MaxLen == 2         \* longest collection the API corpus holds in Spec
MaxOver == 2        \* how far the big corpora of SpecCap exceed the page size

(***************************************************************************)
(* Python values.  Every value is a record [t, v]; t is the Python type.   *)
(***************************************************************************)
PyNone == [t |-> "NoneType", v |-> ""]
PyStr(s) == [t |-> "str", v |-> s]
PyFloat(f) == [t |-> "float", v |-> f]     \* v is the float's repr
PyList(l) == [t |-> "list", v |-> l]
Unset == [t |-> "unset", v |-> ""]      \* no value was returned

IsNone(x) == x.t = "NoneType"
IsList(x) == x.t = "list"

\* Python truth value of None, a str or a list
Truthy(x) ==
    CASE x.t = "NoneType" -> FALSE
      [] x.t = "str" -> x.v # ""
      [] x.t = "list" -> Len(x.v) > 0
      [] OTHER -> FALSE

\* A dict is the sequence of its items (k, v) in insertion order.
Item(k, val) == [k |-> k, v |-> val]
DictHas(d, k) == \E i \in 1..Len(d) : d[i].k = k
\* d.get(k): None when the key is absent
DictGet(d, k) ==
    IF DictHas(d, k) THEN d[CHOOSE i \in 1..Len(d) : d[i].k = k].v ELSE PyNone
\* d[k] = val: replaces in place, or appends a new key
DictSet(d, k, val) ==
    IF DictHas(d, k)
    THEN [i \in 1..Len(d) |-> IF d[i].k = k THEN Item(k, val) ELSE d[i]]
    ELSE Append(d, Item(k, val))
DictKeys(d) == {d[i].k : i \in 1..Len(d)}

(***************************************************************************)
(* json.dump / json.load on a list of dicts whose values are str or None.  *)
(* A file's text is the sequence of its JSON tokens (white space, which    *)
(* indent=4 adds, separates tokens and is not kept).                       *)
(***************************************************************************)
Tok(t, v) == [t |-> t, v |-> v]
P(c) == Tok("punct", c)

\* a str is written as a string, a float as a number (its repr), None as null
DumpValue(val) ==
    CASE val.t = "NoneType" -> Tok("null", "")
      [] val.t = "float" -> Tok("num", val.v)
      [] OTHER -> Tok("str", val.v)
LoadValue(tok) ==
    CASE tok.t = "null" -> PyNone
      [] tok.t = "num" -> [t |-> "float", v |-> tok.v]
      [] OTHER -> [t |-> "str", v |-> tok.v]

RECURSIVE DumpItems(_, _)
DumpItems(d, i) ==
    IF i > Len(d) THEN <<>>
    ELSE <<Tok("str", d[i].k), P(":"), DumpValue(d[i].v)>>
         \o (IF i < Len(d) THEN <<P(",")>> ELSE <<>>)
         \o DumpItems(d, i + 1)

DumpDict(d) == <<P("{")>> \o DumpItems(d, 1) \o <<P("}")>>

RECURSIVE DumpElems(_, _)
DumpElems(l, i) ==
    IF i > Len(l) THEN <<>>
    ELSE DumpDict(l[i])
         \o (IF i < Len(l) THEN <<P(",")>> ELSE <<>>)
         \o DumpElems(l, i + 1)

\* json.dump(obj, f, indent=4, ensure_ascii=False)
JsonDump(l) == <<P("[")>> \o DumpElems(l, 1) \o <<P("]")>>

\* Parse results: [ok, v, pos]; pos is the first token not consumed.
Fail == [ok |-> FALSE, v |-> <<>>, pos |-> 0]
Is(text, i, tok) == i <= Len(text) /\ text[i] = tok

RECURSIVE ParseItems(_, _, _)
ParseItems(text, i, acc) ==
    IF /\ i + 2 <= Len(text)
       /\ text[i].t = "str"
       /\ text[i + 1] = P(":")
       /\ text[i + 2].t \in {"str", "num", "null"}
    THEN LET val == LoadValue(text[i + 2])
             acc2 == DictSet(acc, text[i].v, val)
         IN  IF Is(text, i + 3, P(",")) THEN ParseItems(text, i + 4, acc2)
             ELSE IF Is(text, i + 3, P("}")) THEN [ok |-> TRUE, v |-> acc2, pos |-> i + 4]
             ELSE Fail
    ELSE Fail

ParseDict(text, i) ==
    IF ~Is(text, i, P("{")) THEN Fail
    ELSE IF Is(text, i + 1, P("}")) THEN [ok |-> TRUE, v |-> <<>>, pos |-> i + 2]
    ELSE ParseItems(text, i + 1, <<>>)

RECURSIVE ParseElems(_, _, _)
ParseElems(text, i, acc) ==
    LET d == ParseDict(text, i)
    IN  IF ~d.ok THEN Fail
        ELSE IF Is(text, d.pos, P(",")) THEN ParseElems(text, d.pos + 1, Append(acc, d.v))
        ELSE IF Is(text, d.pos, P("]"))
             THEN [ok |-> TRUE, v |-> Append(acc, d.v), pos |-> d.pos + 1]
        ELSE Fail

ParseList(text) ==
    IF ~Is(text, 1, P("[")) THEN Fail
    ELSE IF Is(text, 2, P("]")) THEN [ok |-> TRUE, v |-> <<>>, pos |-> 3]
    ELSE ParseElems(text, 2, <<>>)

\* json.load(f): the parsed list, or a JSONDecodeError
JsonLoad(text) ==
    LET r == ParseList(text)
    IN  IF r.ok /\ r.pos = Len(text) + 1
        THEN [ok |-> TRUE, v |-> r.v]
        ELSE [ok |-> FALSE, v |-> <<>>]

(***************************************************************************)
(* The data directory                                                      *)
(***************************************************************************)
GLOBAL_HEADLINES == "global_headlines.json"      \* fetchNews.py:44, analyzeSentiment.py:49
ANALYZED_HEADLINES == "analyzed_headlines.json"  \* analyzeSentiment.py:56
Files == {GLOBAL_HEADLINES, ANALYZED_HEADLINES, "missing.json", "broken.json"}

Absent == [exists |-> FALSE, text |-> <<>>]
File(text) == [exists |-> TRUE, text |-> text]

(***************************************************************************)
(* Article records, as the news API serves them                            *)
(***************************************************************************)
A1 == <<Item("title", PyStr("Markets rally on strong earnings")), Item("source", PyStr("x"))>>
A2 == <<Item("url", PyStr("u")), Item("title", PyStr("Storm hits coast"))>>
A3 == <<Item("title", PyStr("")), Item("source", PyStr("x"))>>
A4 == <<Item("source", PyStr("x"))>>
A5 == <<Item("title", PyNone), Item("url", PyStr("u"))>>
Articles == {A1, A2, A3, A4, A5}

SeqsUpTo(S, n) == UNION {[1..k -> S] : k \in 0..n}
Corpora == SeqsUpTo(Articles, MaxLen)

Min(a, b) == IF a < b THEN a ELSE b

(***************************************************************************)
(* fetchNews.py                                                            *)
(***************************************************************************)
BASE_URL == "https://newsapi.org/v2/top-headlines"
PageSize == 100

Keys == {PyNone, PyStr(""), PyStr("k")}     \* NEWS_API_KEY unset, empty, set
Categories == {"general", "technology"}
Languages == {"en", "fr"}

\* What the network and the news API do with one request: the connection
\* fails, the request times out, or the API answers with a status; a 200
\* answer carries the articles the API holds for the query (or no
\* `articles` member at all).
World(fault, status, corpus, hasArticles) ==
    [fault |-> fault, status |-> status, corpus |-> corpus, hasArticles |-> hasArticles]
WorldsOver(corpora) ==
    {World(f, 200, <<>>, FALSE) : f \in {"ConnectionError", "Timeout"}}
    \cup {World("", s, <<>>, FALSE) : s \in {401, 429, 500}}
    \cup {World("", 200, <<>>, FALSE)}
    \cup {World("", 200, c, TRUE) : c \in corpora}
Worlds == WorldsOver(Corpora)

NoArgs == [category |-> "", language |-> ""]
NoResponse ==
    [raised |-> "", status |-> 0, hasArticles |-> FALSE, totalResults |-> 0, articles |-> <<>>]

\* params of the request (lines 18-23)
Params(category, language, key) ==
    [category |-> category, language |-> language, apiKey |-> key.v, pageSize |-> PageSize]

\* requests.get(BASE_URL, params=params): raises, or returns the response.
\* The API serves at most pageSize of the articles it holds, in its order, and
\* reports in totalResults how many it holds.
HttpGet(url, params, world) ==
    IF world.fault # ""
    THEN [raised |-> world.fault, status |-> 0, hasArticles |-> FALSE, totalResults |-> 0,
          articles |-> <<>>]
    ELSE [raised |-> "", status |-> world.status,
          hasArticles |-> world.status = 200 /\ world.hasArticles,
          totalResults |-> IF world.status = 200 /\ world.hasArticles
                           THEN Len(world.corpus) ELSE 0,
          articles |-> IF world.status = 200 /\ world.hasArticles
                       THEN SubSeq(world.corpus, 1, Min(Len(world.corpus), params.pageSize))
                       ELSE <<>>]

\* response.raise_for_status(): HTTPError for a 4xx or 5xx status
RaiseForStatus(resp) == IF resp.status >= 400 /\ resp.status < 600 THEN "HTTPError" ELSE ""

\* `if not API_KEY` (line 13)
KeyMissing_IsNone(key) == IsNone(key)
KeyMissing(key) == ~Truthy(key)

\* `except requests.exceptions.RequestException` (line 32): the classes it catches
Catches_HTTPErrorOnly(e) == e = "HTTPError"
Catches(e) == e \in {"RequestException", "HTTPError", "ConnectionError", "Timeout"}

\* data.get('articles', []) (line 30)
ArticlesOf_DropLast(resp) ==
    IF resp.hasArticles /\ Len(resp.articles) > 0
    THEN SubSeq(resp.articles, 1, Len(resp.articles) - 1) ELSE <<>>
ArticlesOf(resp) == IF resp.hasArticles THEN resp.articles ELSE <<>>

\* The outcome of one call: the value returned, the exception that left the
\* call, the requests it issued and the response it got.
Outcome(r, e, reqs, resp) == [ret |-> r, exc |-> e, requests |-> reqs, response |-> resp]

get_headlines_by_category(key, category, language, world) ==
    IF KeyMissing(key) THEN Outcome(PyNone, "", <<>>, NoResponse)
    ELSE LET params == Params(category, language, key)
             resp == HttpGet(BASE_URL, params, world)
             raised == IF resp.raised # "" THEN resp.raised ELSE RaiseForStatus(resp)
         IN  IF raised = "" THEN Outcome(PyList(ArticlesOf(resp)), "", <<params>>, resp)
             ELSE IF Catches(raised) THEN Outcome(PyNone, "", <<params>>, resp)
             ELSE Outcome(Unset, raised, <<params>>, resp)

\* open(file_path, 'w') + json.dump (lines 40-46): the directory is created
\* when absent and the file is replaced
SaveHeadlines_KeepExisting(files, arts) ==
    IF files[GLOBAL_HEADLINES].exists THEN files
    ELSE [files EXCEPT ![GLOBAL_HEADLINES] = File(JsonDump(arts))]
SaveHeadlines(files, arts) == [files EXCEPT ![GLOBAL_HEADLINES] = File(JsonDump(arts))]

\* `if articles:` (line 39)
ShouldSave(arts) == Truthy(arts)

\* no process is running
Stopped == pc = "idle"

\* a process starts: nothing of the previous process is left but the files
ResetAnalyzer ==
    /\ file_path' = ""
    /\ articles' = <<>>
    /\ idx' = 0
    /\ analyzed_articles' = <<>>
    /\ pipelineInits' = 0
    /\ clsLog' = <<>>

\* A program imports fetchNews and calls get_headlines_by_category(category, language)
CallGetHeadlines(key, category, language, world) ==
    /\ Stopped
    /\ LET o == get_headlines_by_category(key, category, language, world)
       IN  /\ ret' = o.ret
           /\ exc' = o.exc
           /\ requests' = o.requests
           /\ response' = o.response
           /\ pc' = IF o.exc = "" THEN "done" ELSE "raised"
    /\ API_KEY' = key
    /\ prog' = "get_headlines_by_category"
    /\ args' = [category |-> category, language |-> language]
    /\ fs0' = fs
    /\ ResetAnalyzer
    /\ UNCHANGED fs

\* python fetchNews.py (lines 36-52)
FetcherMain(key, world) ==
    /\ Stopped
    /\ LET o == get_headlines_by_category(key, "general", "en", world)
           save == o.exc = "" /\ ShouldSave(o.ret)
       IN  /\ ret' = o.ret
           /\ exc' = o.exc
           /\ requests' = o.requests
           /\ response' = o.response
           /\ pc' = IF o.exc = "" THEN "done" ELSE "raised"
           /\ fs' = IF save THEN SaveHeadlines(fs, o.ret.v) ELSE fs
    /\ API_KEY' = key
    /\ prog' = "fetchNews.py"
    /\ args' = [category |-> "general", language |-> "en"]
    /\ fs0' = fs
    /\ ResetAnalyzer

(***************************************************************************)
(* analyzeSentiment.py                                                     *)
(***************************************************************************)
\* What sentiment_pipeline(title) does: it returns [{'label': .., 'score': ..}],
\* or the inference fails and it raises.
Labels == {"POSITIVE", "NEGATIVE"}
Scores == {"0.9998", "0.5123"}
ClassifierOutcomes ==
    {[failed |-> FALSE, label |-> l, score |-> s] : l \in Labels, s \in Scores}
    \cup {[failed |-> TRUE, label |-> "", score |-> ""]}

ResetFetcher ==
    /\ API_KEY' = PyNone
    /\ args' = NoArgs
    /\ requests' = <<>>
    /\ response' = NoResponse

\* lines 8-10: the model is loaded when the function is entered
StartAnalysis(path, program) ==
    /\ prog' = program
    /\ file_path' = path
    /\ pipelineInits' = 1
    /\ pc' = "open"
    /\ articles' = <<>>
    /\ idx' = 0
    /\ analyzed_articles' = <<>>
    /\ clsLog' = <<>>
    /\ ret' = Unset
    /\ exc' = ""
    /\ fs0' = fs
    /\ ResetFetcher
    /\ UNCHANGED fs

\* A program imports analyzeSentiment and calls analyzeSentiment(file_path)
AnalyzerCall(path) ==
    /\ Stopped
    /\ StartAnalysis(path, "analyzeSentiment")

\* names bound at module level when line 52 runs
ModuleNames == {"os", "json", "pipeline", "analyzeSentiment"}
\* the name line 52 calls
MainCallee == "analyze_headlines"

\* python analyzeSentiment.py (lines 46-52): line 52 looks the callee up
AnalyzerMain ==
    /\ Stopped
    /\ IF MainCallee \in ModuleNames
       THEN StartAnalysis(GLOBAL_HEADLINES, "analyzeSentiment.py")
       ELSE /\ prog' = "analyzeSentiment.py"
            /\ file_path' = ""
            /\ pipelineInits' = 0
            /\ pc' = "raised"
            /\ exc' = "NameError"
            /\ ret' = Unset
            /\ articles' = <<>>
            /\ idx' = 0
            /\ analyzed_articles' = <<>>
            /\ clsLog' = <<>>
            /\ fs0' = fs
            /\ ResetFetcher
            /\ UNCHANGED fs

\* lines 54-60: `if analyzed_data:` then open(output_file, 'w') + json.dump
SaveAnalyzed(files, program, value) ==
    IF program = "analyzeSentiment.py" /\ Truthy(value)
    THEN [files EXCEPT ![ANALYZED_HEADLINES] = File(JsonDump(value.v))]
    ELSE files

\* lines 13-18: open + json.load; only FileNotFoundError is caught
ReadInput_MissingIsEmpty(files, path) ==
    IF ~files[path].exists THEN [kind |-> "ok", v |-> <<>>]
    ELSE IF JsonLoad(files[path].text).ok
         THEN [kind |-> "ok", v |-> JsonLoad(files[path].text).v]
         ELSE [kind |-> "raise", v |-> <<>>]
ReadInput(files, path) ==
    IF ~files[path].exists THEN [kind |-> "none", v |-> <<>>]
    ELSE IF JsonLoad(files[path].text).ok
         THEN [kind |-> "ok", v |-> JsonLoad(files[path].text).v]
         ELSE [kind |-> "raise", v |-> <<>>]

OpenInput ==
    /\ pc = "open"
    /\ LET r == ReadInput(fs, file_path)
       IN  CASE r.kind = "none" ->
                  /\ ret' = PyNone
                  /\ pc' = "done"
                  /\ fs' = SaveAnalyzed(fs, prog, PyNone)
                  /\ UNCHANGED <<articles, idx, exc>>
             [] r.kind = "raise" ->
                  /\ exc' = "JSONDecodeError"
                  /\ pc' = "raised"
                  /\ UNCHANGED <<articles, idx, ret, fs>>
             [] OTHER ->
                  /\ articles' = r.v
                  /\ idx' = 1
                  /\ pc' = "loop"
                  /\ UNCHANGED <<ret, exc, fs>>
    /\ UNCHANGED <<API_KEY, prog, args, file_path, analyzed_articles, requests, response,
                   pipelineInits, clsLog, fs0>>

\* `if not title: continue` (lines 26-28)
Skips_AbsentOnly(article) == ~DictHas(article, "title")
Skips(article) == ~Truthy(DictGet(article, "title"))

LoopSkip ==
    /\ pc = "loop"
    /\ idx <= Len(articles)
    /\ Skips(articles[idx])
    /\ idx' = idx + 1
    /\ UNCHANGED <<API_KEY, fs, pc, prog, args, file_path, articles, analyzed_articles, ret, exc,
                   requests, response, pipelineInits, clsLog, fs0>>

\* lines 35-40: the record with the two fields set
Augment_Swapped(article, out) ==
    DictSet(DictSet(article, "sentiment", PyFloat(out.score)),
            "sentiment_score", PyStr(out.label))
Augment(article, out) ==
    DictSet(DictSet(article, "sentiment", PyStr(out.label)),
            "sentiment_score", PyFloat(out.score))

\* line 9 runs once, before the loop: the iteration of lines 24-41 leaves the
\* number of models loaded as it is
LoadsAfterRecord_Reload(n) == n + 1
LoadsAfterRecord(n) == n

\* the classifier's exception is not caught in the loop (lines 24-41)
LoopCatches_Any(e) == TRUE
LoopCatches(e) == FALSE

\* lines 32-41
LoopClassify(out) ==
    /\ pc = "loop"
    /\ idx <= Len(articles)
    /\ ~Skips(articles[idx])
    /\ clsLog' = Append(clsLog, [title |-> DictGet(articles[idx], "title").v, out |-> out])
    /\ pipelineInits' = LoadsAfterRecord(pipelineInits)
    /\ IF out.failed
       THEN IF LoopCatches("RuntimeError")
            THEN /\ idx' = idx + 1
                 /\ UNCHANGED <<pc, exc, articles, analyzed_articles>>
            ELSE /\ exc' = "RuntimeError"
                 /\ pc' = "raised"
                 /\ UNCHANGED <<idx, articles, analyzed_articles>>
       ELSE LET article == Augment(articles[idx], out)
            IN  /\ articles' = [articles EXCEPT ![idx] = article]
                /\ analyzed_articles' = Append(analyzed_articles, article)
                /\ idx' = idx + 1
                /\ UNCHANGED <<pc, exc>>
    /\ UNCHANGED <<API_KEY, fs, prog, args, file_path, ret, requests, response, fs0>>

\* lines 43-44, and lines 54-60 when the script called
AnalyzerReturn ==
    /\ pc = "loop"
    /\ idx > Len(articles)
    /\ ret' = PyList(analyzed_articles)
    /\ pc' = "done"
    /\ fs' = SaveAnalyzed(fs, prog, PyList(analyzed_articles))
    /\ UNCHANGED <<API_KEY, prog, args, file_path, articles, idx, analyzed_articles, exc,
                   requests, response, pipelineInits, clsLog, fs0>>

(***************************************************************************)
(* The system: processes run one at a time                                 *)
(***************************************************************************)
\* The process ends (its function returned or an exception terminated it):
\* only the files remain.
ProcessExit ==
    /\ pc \in {"done", "raised"}
    /\ pc' = "idle"
    /\ prog' = ""
    /\ ret' = Unset
    /\ exc' = ""
    /\ fs0' = fs
    /\ ResetFetcher
    /\ ResetAnalyzer
    /\ UNCHANGED fs

\* text cut short by an interrupted write: not valid JSON
BrokenText == <<P("["), P("{"), Tok("str", "title")>>

Init ==
    /\ API_KEY = PyNone
    /\ fs \in {[f \in Files |->
                 CASE f = "broken.json" -> File(BrokenText)
                   [] f = ANALYZED_HEADLINES -> old
                   [] OTHER -> Absent] :
               old \in {Absent, File(JsonDump(<<Augment(A1, [failed |-> FALSE,
                                      label |-> "POSITIVE", score |-> "0.9998"])>>))}}
    /\ pc = "idle"
    /\ prog = ""
    /\ args = NoArgs
    /\ file_path = ""
    /\ articles = <<>>
    /\ idx = 0
    /\ analyzed_articles = <<>>
    /\ ret = Unset
    /\ exc = ""
    /\ requests = <<>>
    /\ response = NoResponse
    /\ pipelineInits = 0
    /\ clsLog = <<>>
    /\ fs0 = fs

Next ==
    \/ \E k \in Keys, c \in Categories, l \in Languages, w \in Worlds :
          CallGetHeadlines(k, c, l, w)
    \/ \E k \in Keys, w \in Worlds : FetcherMain(k, w)
    \/ \E p \in Files : AnalyzerCall(p)
    \/ AnalyzerMain
    \/ OpenInput
    \/ LoopSkip
    \/ \E out \in ClassifierOutcomes : LoopClassify(out)
    \/ AnalyzerReturn
    \/ ProcessExit

Spec == Init /\ [][Next]_vars

\* The API holds about a page of articles, or more
BigCorpora == {[i \in 1..n |-> IF i % 2 = 1 THEN A1 ELSE A2] : n \in 1..(PageSize + MaxOver)}

NextCap ==
    \/ \E k \in Keys, c \in Categories, l \in Languages, w \in WorldsOver(BigCorpora) :
          CallGetHeadlines(k, c, l, w)
    \/ ProcessExit

SpecCap == Init /\ [][NextCap]_vars

(***************************************************************************)
(* Properties                                                              *)
(***************************************************************************)
FetcherRan == prog \in {"get_headlines_by_category", "fetchNews.py"} /\ pc \in {"done", "raised"}
AnalyzerEntered == prog \in {"analyzeSentiment", "analyzeSentiment.py"} /\ file_path \in Files
AnalyzerEnded == AnalyzerEntered /\ pc \in {"done", "raised"}

KeyEmptyOrUnset == API_KEY.t = "NoneType" \/ (API_KEY.t = "str" /\ API_KEY.v = "")

\* the records of the file the analysis read
InputRecords == JsonLoad(fs0[file_path].text).v
HasNonEmptyTitle(rec) ==
    \E i \in 1..Len(rec) : rec[i].k = "title" /\ rec[i].v.t = "str" /\ rec[i].v.v # ""
Titled(recs) == SelectSeq(recs, HasNonEmptyTitle)
NotSentimentField(item) == item.k \notin {"sentiment", "sentiment_score"}
WithoutSentiment(rec) == SelectSeq(rec, NotSentimentField)
ValueOf(rec, k) == rec[CHOOSE i \in 1..Len(rec) : rec[i].k = k].v

\* C1: with NEWS_API_KEY empty or unset, get_headlines_by_category returns None
\* for every category and language, and the call issues no network request.
C1_NoKeyNoRequest ==
    (FetcherRan /\ KeyEmptyOrUnset) =>
        /\ pc = "done"
        /\ IsNone(ret)
        /\ exc = ""
        /\ requests = <<>>
        /\ response = NoResponse

C1_Witness ==
    /\ prog = "get_headlines_by_category"
    /\ pc = "done"
    /\ API_KEY = PyStr("")
    /\ args = [category |-> "technology", language |-> "fr"]
    /\ IsNone(ret)

\* C2: the collection analyzeSentiment returns is exactly the subsequence of the
\* input records that have a non-empty title, in input order; its length is the
\* number of such records.
C2_TitledSubsequence ==
    (AnalyzerEnded /\ pc = "done" /\ IsList(ret)) =>
        /\ Len(ret.v) = Len(Titled(InputRecords))
        /\ \A i \in 1..Len(ret.v) :
              WithoutSentiment(ret.v[i]) = WithoutSentiment(Titled(InputRecords)[i])

C2_Witness ==
    /\ AnalyzerEnded /\ pc = "done" /\ IsList(ret)
    /\ InputRecords = <<A3, A2>>
    /\ Len(ret.v) = 1

\* C3: every returned record has `sentiment` and `sentiment_score` set to the
\* label and score the classifier returned for that record's title, and its
\* fields are exactly the input fields, unchanged, plus those two.
C3_AugmentedRecords ==
    (AnalyzerEnded /\ pc = "done" /\ IsList(ret)) =>
        /\ Len(clsLog) = Len(ret.v)
        /\ \A i \in 1..Len(ret.v) :
              LET rec == ret.v[i]
                  src == Titled(InputRecords)[i]
              IN  /\ DictKeys(rec) = DictKeys(src) \cup {"sentiment", "sentiment_score"}
                  /\ Len(rec) = Cardinality(DictKeys(rec))
                  /\ \A k \in DictKeys(src) \ {"sentiment", "sentiment_score"} :
                        ValueOf(rec, k) = ValueOf(src, k)
                  /\ clsLog[i].title = ValueOf(src, "title").v
                  /\ ~clsLog[i].out.failed
                  /\ ValueOf(rec, "sentiment") = [t |-> "str", v |-> clsLog[i].out.label]
                  /\ ValueOf(rec, "sentiment_score") = [t |-> "float", v |-> clsLog[i].out.score]

C3_Witness ==
    /\ AnalyzerEnded /\ pc = "done" /\ IsList(ret)
    /\ Len(ret.v) = 2
    /\ ValueOf(ret.v[1], "sentiment") = PyStr("NEGATIVE")
    /\ ValueOf(ret.v[2], "sentiment") = PyStr("POSITIVE")
    /\ ValueOf(ret.v[1], "sentiment_score") # ValueOf(ret.v[2], "sentiment_score")

\* C4: with a non-empty key, a failed fetch (connection error, timeout, 4xx/5xx
\* status) is caught inside get_headlines_by_category: the call returns None,
\* no exception leaves it, and exactly one request was issued (no retry).
FetchFailed == response.raised # "" \/ response.status \notin 200..299
AnalyzerInput == IF prog = "analyzeSentiment.py" THEN GLOBAL_HEADLINES ELSE file_path
C5_MissingInput ==
    (/\ prog \in {"analyzeSentiment", "analyzeSentiment.py"}
     /\ pc \in {"done", "raised"}
     /\ ~fs0[AnalyzerInput].exists) =>
        /\ clsLog = <<>>
        /\ analyzed_articles = <<>>
        /\ fs = fs0
        /\ AnalyzerEntered => (pc = "done" /\ IsNone(ret) /\ exc = "")

C5_Witness ==
    /\ prog = "analyzeSentiment"
    /\ file_path = "missing.json"
    /\ pc = "done"
    /\ IsNone(ret)
    /\ ~fs[ANALYZED_HEADLINES].exists

\* C6 (as claimed): after every top-level Fetcher run whose fetch returned a
\* collection, the empty collection included, global_headlines.json holds
\* exactly the collection fetched by that run.
C6_Original ==
    (prog = "fetchNews.py" /\ pc = "done" /\ IsList(ret)) =>
        /\ fs[GLOBAL_HEADLINES].exists
        /\ JsonLoad(fs[GLOBAL_HEADLINES].text) = [ok |-> TRUE, v |-> ret.v]

\* C6 (amended): after every top-level Fetcher run whose fetch returned a
\* non-empty collection, global_headlines.json holds exactly the collection
\* fetched by that run, whatever an earlier run had written there.
C6_NonEmptyOverwrites ==
    (prog = "fetchNews.py" /\ pc = "done" /\ IsList(ret) /\ Len(ret.v) > 0) =>
        /\ fs[GLOBAL_HEADLINES].exists
        /\ JsonLoad(fs[GLOBAL_HEADLINES].text) = [ok |-> TRUE, v |-> ret.v]

C6_Witness ==
    /\ prog = "fetchNews.py" /\ pc = "done" /\ IsList(ret)
    /\ ret.v = <<A2, A5>>
    /\ fs0[GLOBAL_HEADLINES].exists
    /\ fs0[GLOBAL_HEADLINES] # fs[GLOBAL_HEADLINES]
    /\ JsonLoad(fs[GLOBAL_HEADLINES].text).v = <<A2, A5>>

\* C7: a top-level Analyzer run that follows a Fetcher run which wrote
\* global_headlines.json reads that file and writes analyzed_headlines.json
\* holding the augmented collection computed from it.
C7_PipelineWritesAnalyzed ==
    (prog = "analyzeSentiment.py" /\ pc \in {"done", "raised"} /\ fs0[GLOBAL_HEADLINES].exists) =>
        /\ exc = ""
        /\ fs[ANALYZED_HEADLINES].exists
        /\ LET out == JsonLoad(fs[ANALYZED_HEADLINES].text)
               src == Titled(JsonLoad(fs0[GLOBAL_HEADLINES].text).v)
           IN  /\ out.ok
               /\ Len(out.v) = Len(src)
               /\ \A i \in 1..Len(out.v) :
                     /\ WithoutSentiment(out.v[i]) = WithoutSentiment(src[i])
                     /\ {"sentiment", "sentiment_score"} \subseteq DictKeys(out.v[i])

C9_InitializedOnce ==
    AnalyzerEntered =>
        /\ pipelineInits = 1
        /\ (idx > 0 \/ clsLog # <<>> \/ analyzed_articles # <<>>) => pc # "open"

C9_Witness ==
    /\ AnalyzerEnded
    /\ pc = "done"
    /\ Len(clsLog) = 2
    /\ pipelineInits = 1

\* C10: malformed JSON in the input file, or a classifier failure on any record
\* (also after earlier records were classified), is not caught: the run ends
\* with the error, analyzeSentiment returns no collection, and no file is
\* written.
MalformedInput == fs0[file_path].exists /\ ~JsonLoad(fs0[file_path].text).ok
ClassifierFailed == \E i \in 1..Len(clsLog) : clsLog[i].out.failed
C10_OtherFailuresPropagate ==
    /\ (AnalyzerEnded /\ MalformedInput) =>
          (pc = "raised" /\ exc = "JSONDecodeError" /\ ret = Unset /\ fs = fs0)
    /\ (AnalyzerEntered /\ ClassifierFailed) =>
          (pc = "raised" /\ exc = "RuntimeError" /\ ret = Unset /\ fs = fs0)

C10_Witness ==
    /\ AnalyzerEnded
    /\ pc = "raised"
    /\ Len(clsLog) = 2
    /\ ~clsLog[1].out.failed
    /\ clsLog[2].out.failed
    /\ Len(analyzed_articles) = 1
    /\ ret = Unset

====
